---- MODULE Spec2Model ----
(***************************************************************************)
(* A model of the single-producer/single-consumer ring buffer of           *)
(* src/src/lib.rs: SharedBufferState, BufferWriter, BufferReader and       *)
(* create_ring_buffer.  Every atomic load, slot access and atomic store of *)
(* try_write, try_read and size is one step, so that the two threads       *)
(* interleave at the granularity of their shared-memory accesses.          *)
(***************************************************************************)
EXTENDS Integers, Sequences, FiniteSets

\* ------------------------------------------------------------------ bounds
\* Largest capacity requested from create_ring_buffer.
MaxReq == 3
\* Number of try_write calls the producer makes: enough to fill the largest
\* ring and be rejected once, or to wrap its indices.
MaxCalls == MaxReq + 1
\* Length of the window of completed, non-overlapping calls that is remembered.
MaxHist == MaxReq

VARIABLES
    requested,      \* the argument of create_ring_buffer
    ring_capacity,  \* SharedBufferState.ring_capacity
    wr_index,       \* SharedBufferState.wr_index
    rd_index,       \* SharedBufferState.rd_index
    storage,        \* SharedBufferState.storage, one element per slot
    strong_count,   \* the Arc's strong count
    leaked,         \* elements still in the storage when it was freed
    w_pc, w_v, w_rd, w_wr, w_ret, w_steps, w_call,   \* the producer thread
    r_pc, r_v, r_rd, r_wr, r_ret, r_steps, r_call,   \* the consumer thread
    r_mode,         \* "user": try_read called by the owner; "drain": by drop
    ncalls,         \* try_write calls made so far
    pushed,         \* elements accepted by try_write, in order
    popped,         \* elements returned by try_read, in order
    destroyed,      \* elements whose destructor ran in the reader's drop
    drain_snap,     \* elements resident when the reader's drop began
    hist            \* window of the last completed calls that did not overlap

shared == <<requested, ring_capacity, wr_index, rd_index, storage, strong_count, leaked>>
wvars == <<w_pc, w_v, w_rd, w_wr, w_ret, w_steps, w_call>>
rvars == <<r_pc, r_v, r_rd, r_wr, r_ret, r_steps, r_call, r_mode>>
ghost == <<ncalls, pushed, popped, destroyed, drain_snap, hist>>
vars == <<shared, wvars, rvars, ghost>>

\* ---------------------------------------------------------------- values
\* The bytes of a slot that holds no element: never written, or moved out.
Uninit == 0

\* The producer passes a fresh value on every call, as the counter of
\* tests::threaded_test1 does: any two elements can be told apart.
FreshValue == ncalls + 1

Ret(k, e, n) == [kind |-> k, v |-> e, n |-> n]

NoRet == Ret("NoRet", Uninit, 0)

\* What is remembered about the call in progress: its argument, whether the
\* ring was empty and the other thread outside any call when it began
\* (empty, clean), the number of resident elements when it loaded the other
\* thread's index (occ), and what the thread's last size() promised: room
\* for a push (room), or that many elements to pop (avail).
WIdleCall == [arg |-> Uninit, empty |-> FALSE, clean |-> FALSE, occ |-> 0, room |-> FALSE]

RIdleCall == [empty |-> FALSE, clean |-> FALSE, occ |-> 0, avail |-> 0]

\* ------------------------------------------------------- pure functions
\* create_ring_buffer: the clamp of the requested capacity.
ActualCapacityClampOne(buffer_capacity) ==
    IF buffer_capacity < 1 THEN 1 ELSE buffer_capacity

ActualCapacity(buffer_capacity) ==
    IF buffer_capacity < 2 THEN 2 ELSE buffer_capacity

\* SharedBufferState::size: the occupancy computed from two loaded indices.
SizeOfNoWrap(cur_write_idx, cur_read_idx, cap) ==
    IF cur_write_idx >= cur_read_idx THEN cur_write_idx - cur_read_idx ELSE 0

SizeOf(cur_write_idx, cur_read_idx, cap) ==
    (cur_write_idx + cap - cur_read_idx) % cap

\* try_write's full test.
IsFullNoReserve(cur_write_idx, cur_read_idx, cap) ==
    ((cur_write_idx + cap - cur_read_idx) % cap) = cap

IsFullOneEarly(cur_write_idx, cur_read_idx, cap) ==
    ((cur_write_idx + cap - cur_read_idx) % cap) >= (cap - 2)

IsFull(cur_write_idx, cur_read_idx, cap) ==
    ((cur_write_idx + cap - cur_read_idx) % cap) = (cap - 1)

\* try_read's empty test.
IsEmptyUnchecked(cur_write_idx, cur_read_idx) == FALSE

IsEmpty(cur_write_idx, cur_read_idx) == cur_read_idx = cur_write_idx

\* The index stored after a slot access.
NextIndexNoModulo(idx, cap) == idx + 1

NextIndexNoWrap(idx, cap) == IF idx + 1 < cap THEN idx + 1 ELSE idx

NextIndex(idx, cap) == (idx + 1) % cap

\* ----------------------------------------------------------- ghost helpers
InTry(pc) == pc \in {"load_rd", "load_wr", "check", "store"}

Window(s) == IF Len(s) > MaxHist THEN Tail(s) ELSE s

\* The slots holding a pushed and not yet popped element, oldest first.
RECURSIVE Resident(_, _)
Resident(rd, wr) ==
    IF rd = wr THEN <<>>
    ELSE <<storage[rd]>> \o Resident((rd + 1) % ring_capacity, wr)

Range(s) == {s[i] : i \in 1..Len(s)}

Count(s, e) == Cardinality({i \in 1..Len(s) : s[i] = e})

\* Dropping a handle releases one reference of the Arc; the last one frees
\* the SharedBufferState, whose BytesMut frees its bytes without running any
\* element destructor.
ReleaseArc ==
    /\ strong_count' = strong_count - 1
    /\ IF strong_count = 1
       THEN /\ leaked' = Range(Resident(rd_index, wr_index))
            /\ storage' = [i \in 0..(ring_capacity - 1) |-> Uninit]
       ELSE UNCHANGED <<leaked, storage>>

\* ------------------------------------------------------------------ Init
Init ==
    /\ requested \in 0..MaxReq
    /\ ring_capacity = ActualCapacity(requested)
    /\ wr_index = 0
    /\ rd_index = 0
    /\ storage = [i \in 0..(ring_capacity - 1) |-> Uninit]
    /\ strong_count = 2
    /\ leaked = {}
    /\ w_pc = "idle" /\ w_v = Uninit /\ w_rd = 0 /\ w_wr = 0
    /\ w_ret = NoRet /\ w_steps = 0 /\ w_call = WIdleCall
    /\ r_pc = "idle" /\ r_v = Uninit /\ r_rd = 0 /\ r_wr = 0
    /\ r_ret = NoRet /\ r_steps = 0 /\ r_call = RIdleCall
    /\ r_mode = "user"
    /\ ncalls = 0
    /\ pushed = <<>> /\ popped = <<>> /\ destroyed = <<>>
    /\ drain_snap = <<>>
    /\ hist = <<>>

\* ---------------------------------------------------------------- writer
\* Entry of try_write(value): the value is moved into the local v.
TryWrite ==
    /\ w_pc = "idle"
    /\ ncalls < MaxCalls
    /\ ncalls' = ncalls + 1
    /\ w_pc' = "load_rd"
    /\ w_v' = FreshValue
    /\ w_ret' = NoRet
    /\ w_steps' = 0
    /\ w_call' = [arg |-> FreshValue,
                  empty |-> (rd_index = wr_index),
                  clean |-> ~InTry(r_pc),
                  occ |-> 0,
                  room |-> w_call.room]
    /\ r_call' = [r_call EXCEPT !.clean = FALSE]
    /\ hist' = IF InTry(r_pc) THEN <<>> ELSE hist
    /\ UNCHANGED <<shared, w_rd, w_wr, r_pc, r_v, r_rd, r_wr, r_ret, r_steps, r_mode,
                   pushed, popped, destroyed, drain_snap>>

WLoadRd ==
    /\ w_pc = "load_rd"
    /\ w_rd' = rd_index
    /\ w_pc' = "load_wr"
    /\ w_steps' = w_steps + 1
    /\ w_call' = [w_call EXCEPT !.occ = Len(pushed) - Len(popped)]
    /\ UNCHANGED <<shared, w_v, w_wr, w_ret, rvars, ghost>>

WLoadWr ==
    /\ w_pc = "load_wr"
    /\ w_wr' = wr_index
    /\ w_pc' = "check"
    /\ w_steps' = w_steps + 1
    /\ UNCHANGED <<shared, w_v, w_rd, w_ret, w_call, rvars, ghost>>

\* (The full test made only after the slot has been written.)
WReturnErrAfterSwap ==
    /\ w_pc = "check"
    /\ IsFull(w_wr, w_rd, ring_capacity)
    /\ storage' = [storage EXCEPT ![w_wr] = w_v]
    /\ w_ret' = Ret("Err", storage[w_wr], 0)
    /\ w_pc' = "idle"
    /\ w_v' = Uninit /\ w_rd' = 0 /\ w_wr' = 0
    /\ w_steps' = w_steps + 1
    /\ w_call' = WIdleCall
    /\ hist' = IF w_call.clean
               THEN Window(Append(hist, [op |-> "W", arg |-> w_call.arg, ret |-> "Err",
                                         v |-> storage[w_wr], empty |-> w_call.empty]))
               ELSE <<>>
    /\ UNCHANGED <<requested, ring_capacity, wr_index, rd_index, strong_count, leaked,
                   rvars, ncalls, pushed, popped, destroyed, drain_snap>>

\* (A push that waits for room: on a full ring it loads the indices again.)
WSpinWhenFull ==
    /\ w_pc = "check"
    /\ IsFull(w_wr, w_rd, ring_capacity)
    /\ w_pc' = "load_rd"
    /\ w_steps' = w_steps + 1
    /\ UNCHANGED <<shared, w_v, w_rd, w_wr, w_ret, w_call, rvars, ghost>>

\* (A rejected push that keeps the value: Err carries nothing back.)
WReturnErrDropsValue ==
    /\ w_pc = "check"
    /\ IsFull(w_wr, w_rd, ring_capacity)
    /\ w_ret' = Ret("Err", Uninit, 0)
    /\ w_pc' = "idle"
    /\ w_v' = Uninit /\ w_rd' = 0 /\ w_wr' = 0
    /\ w_steps' = w_steps + 1
    /\ w_call' = WIdleCall
    /\ hist' = IF w_call.clean
               THEN Window(Append(hist, [op |-> "W", arg |-> w_call.arg, ret |-> "Err",
                                         v |-> Uninit, empty |-> w_call.empty]))
               ELSE <<>>
    /\ UNCHANGED <<shared, rvars, ncalls, pushed, popped, destroyed, drain_snap>>

\* The ring is full: the value goes back to the caller.
WReturnErr ==
    /\ w_pc = "check"
    /\ IsFull(w_wr, w_rd, ring_capacity)
    /\ w_ret' = Ret("Err", w_v, 0)
    /\ w_pc' = "idle"
    /\ w_v' = Uninit /\ w_rd' = 0 /\ w_wr' = 0
    /\ w_steps' = w_steps + 1
    /\ w_call' = WIdleCall
    /\ hist' = IF w_call.clean
               THEN Window(Append(hist, [op |-> "W", arg |-> w_call.arg, ret |-> "Err",
                                         v |-> w_v, empty |-> w_call.empty]))
               ELSE <<>>
    /\ UNCHANGED <<shared, rvars, ncalls, pushed, popped, destroyed, drain_snap>>

\* (The index store hoisted above the slot write, which is then lost.)
WSwapPublishFirst ==
    /\ w_pc = "check"
    /\ ~IsFull(w_wr, w_rd, ring_capacity)
    /\ wr_index' = NextIndex(w_wr, ring_capacity)
    /\ w_pc' = "store"
    /\ w_steps' = w_steps + 1
    /\ UNCHANGED <<requested, ring_capacity, rd_index, storage, strong_count, leaked,
                   w_v, w_rd, w_wr, w_ret, w_call, rvars, ghost>>

\* mem::swap of the local v and the slot at cur_write_idx.
WSwap ==
    /\ w_pc = "check"
    /\ ~IsFull(w_wr, w_rd, ring_capacity)
    /\ storage' = [storage EXCEPT ![w_wr] = w_v]
    /\ w_v' = storage[w_wr]
    /\ w_pc' = "store"
    /\ w_steps' = w_steps + 1
    /\ UNCHANGED <<requested, ring_capacity, wr_index, rd_index, strong_count, leaked,
                   w_rd, w_wr, w_ret, w_call, rvars, ghost>>

\* The release store of wr_index, and Ok(()): what the step does to the
\* program's state.
WStoreIndex ==
    /\ w_pc = "store"
    /\ wr_index' = NextIndex(w_wr, ring_capacity)
    /\ w_ret' = Ret("Ok", Uninit, 0)
    /\ w_pc' = "idle"
    /\ w_v' = Uninit /\ w_rd' = 0 /\ w_wr' = 0
    /\ w_steps' = w_steps + 1
    /\ w_call' = WIdleCall
    /\ hist' = IF w_call.clean
               THEN Window(Append(hist, [op |-> "W", arg |-> w_call.arg, ret |-> "Ok",
                                         v |-> Uninit, empty |-> w_call.empty]))
               ELSE <<>>
    /\ UNCHANGED <<requested, ring_capacity, rd_index, storage, strong_count, leaked,
                   rvars, ncalls, popped, destroyed, drain_snap>>

\* The same step, with the accepted element recorded.
WStore ==
    /\ WStoreIndex
    /\ pushed' = Append(pushed, w_call.arg)

\* BufferWriter::size: the two loads of SharedBufferState::size, then the result.
WSize ==
    /\ w_pc = "idle"
    /\ w_pc' = "size_rd"
    /\ w_ret' = NoRet
    /\ w_steps' = 0
    /\ w_call' = [arg |-> Uninit, empty |-> (rd_index = wr_index), clean |-> ~InTry(r_pc),
                  occ |-> 0, room |-> FALSE]
    /\ UNCHANGED <<shared, w_v, w_rd, w_wr, rvars, ghost>>

WSizeLoadRd ==
    /\ w_pc = "size_rd"
    /\ w_rd' = rd_index
    /\ w_pc' = "size_wr"
    /\ w_steps' = w_steps + 1
    /\ UNCHANGED <<shared, w_v, w_wr, w_ret, w_call, rvars, ghost>>

WSizeLoadWr ==
    /\ w_pc = "size_wr"
    /\ w_wr' = wr_index
    /\ w_ret' = Ret("Size", Uninit, SizeOf(wr_index, w_rd, ring_capacity))
    /\ w_pc' = "size_ret"
    /\ w_steps' = w_steps + 1
    /\ UNCHANGED <<shared, w_v, w_rd, w_call, rvars, ghost>>

\* The caller has taken the value size() returned.
WSizeReturn ==
    /\ w_pc = "size_ret"
    /\ w_ret' = NoRet
    /\ w_pc' = "idle"
    /\ w_rd' = 0 /\ w_wr' = 0
    /\ w_call' = [WIdleCall EXCEPT !.room = (w_ret.n < ring_capacity - 1)]
    /\ UNCHANGED <<shared, w_v, w_steps, rvars, ghost>>

\* BufferWriter::capacity.
WCapacity ==
    /\ w_pc = "idle"
    /\ w_pc' = "cap_ret"
    /\ w_ret' = Ret("Cap", Uninit, ring_capacity)
    /\ w_steps' = 0
    /\ w_call' = WIdleCall
    /\ UNCHANGED <<shared, w_v, w_rd, w_wr, rvars, ghost>>

\* The caller has taken the value capacity() returned.
WCapacityReturn ==
    /\ w_pc = "cap_ret"
    /\ w_pc' = "idle"
    /\ w_ret' = NoRet
    /\ UNCHANGED <<shared, w_v, w_rd, w_wr, w_steps, w_call, rvars, ghost>>

\* The writer handle goes out of scope: BufferWriter has no Drop of its own.
DropWriter ==
    /\ w_pc = "idle"
    /\ w_pc' = "gone"
    /\ w_ret' = NoRet
    /\ w_steps' = 0
    /\ w_call' = WIdleCall
    /\ ReleaseArc
    /\ UNCHANGED <<requested, ring_capacity, wr_index, rd_index,
                   w_v, w_rd, w_wr, rvars, ghost>>

\* ---------------------------------------------------------------- reader
\* Entry of try_read, from the owner or from the loop of drop.
ReadCallStart ==
    /\ r_pc' = "load_rd"
    /\ r_ret' = NoRet
    /\ r_steps' = 0
    /\ r_call' = [empty |-> (rd_index = wr_index), clean |-> ~InTry(w_pc), occ |-> 0,
                  avail |-> r_call.avail]
    /\ w_call' = [w_call EXCEPT !.clean = FALSE]
    /\ hist' = IF InTry(w_pc) THEN <<>> ELSE hist
    /\ UNCHANGED <<shared, w_pc, w_v, w_rd, w_wr, w_ret, w_steps, r_v, r_rd, r_wr, r_mode,
                   ncalls, pushed, popped, destroyed, drain_snap>>

TryRead ==
    /\ r_pc = "idle"
    /\ ReadCallStart

RLoadRd ==
    /\ r_pc = "load_rd"
    /\ r_rd' = rd_index
    /\ r_pc' = "load_wr"
    /\ r_steps' = r_steps + 1
    /\ UNCHANGED <<shared, wvars, r_v, r_wr, r_ret, r_call, r_mode, ghost>>

RLoadWr ==
    /\ r_pc = "load_wr"
    /\ r_wr' = wr_index
    /\ r_pc' = "check"
    /\ r_steps' = r_steps + 1
    /\ r_call' = [r_call EXCEPT !.occ = Len(pushed) - Len(popped)]
    /\ UNCHANGED <<shared, wvars, r_v, r_rd, r_ret, r_mode, ghost>>

\* (drop written as `loop { self.try_read(); }`: None does not end it.)
RReturnNoneKeepsDraining ==
    /\ r_pc = "check"
    /\ IsEmpty(r_wr, r_rd)
    /\ r_ret' = Ret("None", Uninit, 0)
    /\ r_v' = Uninit /\ r_rd' = 0 /\ r_wr' = 0
    /\ r_steps' = r_steps + 1
    /\ r_call' = RIdleCall
    /\ hist' = IF r_call.clean
               THEN Window(Append(hist, [op |-> "R", arg |-> Uninit, ret |-> "None",
                                         v |-> Uninit, empty |-> r_call.empty]))
               ELSE <<>>
    /\ r_pc' = IF r_mode = "user" THEN "idle" ELSE "drain"
    /\ UNCHANGED <<shared, wvars, r_mode, ncalls, pushed, popped, destroyed, drain_snap>>

\* The ring is empty: None.  In drop this ends the loop.
RReturnNone ==
    /\ r_pc = "check"
    /\ IsEmpty(r_wr, r_rd)
    /\ r_ret' = Ret("None", Uninit, 0)
    /\ r_v' = Uninit /\ r_rd' = 0 /\ r_wr' = 0
    /\ r_steps' = r_steps + 1
    /\ r_call' = RIdleCall
    /\ hist' = IF r_call.clean
               THEN Window(Append(hist, [op |-> "R", arg |-> Uninit, ret |-> "None",
                                         v |-> Uninit, empty |-> r_call.empty]))
               ELSE <<>>
    /\ r_pc' = IF r_mode = "user" THEN "idle" ELSE "release"
    /\ UNCHANGED <<shared, wvars, r_mode, ncalls, pushed, popped, destroyed, drain_snap>>

\* mem::swap of the slot at cur_read_idx and an uninitialized local.
RSwap ==
    /\ r_pc = "check"
    /\ ~IsEmpty(r_wr, r_rd)
    /\ r_v' = storage[r_rd]
    /\ storage' = [storage EXCEPT ![r_rd] = Uninit]
    /\ r_pc' = "store"
    /\ r_steps' = r_steps + 1
    /\ UNCHANGED <<requested, ring_capacity, wr_index, rd_index, strong_count, leaked,
                   wvars, r_rd, r_wr, r_ret, r_call, r_mode, ghost>>

\* (drop written with `if` for `while`: it pops one element and stops.)
RStoreDrainOnce ==
    /\ r_pc = "store"
    /\ rd_index' = NextIndex(r_rd, ring_capacity)
    /\ r_ret' = Ret("Some", r_v, 0)
    /\ r_v' = Uninit /\ r_rd' = 0 /\ r_wr' = 0
    /\ r_steps' = r_steps + 1
    /\ r_call' = [RIdleCall EXCEPT !.avail = IF r_call.avail > 0 THEN r_call.avail - 1 ELSE 0]
    /\ popped' = Append(popped, r_v)
    /\ hist' = IF r_call.clean
               THEN Window(Append(hist, [op |-> "R", arg |-> Uninit, ret |-> "Some",
                                         v |-> r_v, empty |-> r_call.empty]))
               ELSE <<>>
    /\ IF r_mode = "user"
       THEN /\ r_pc' = "idle"
            /\ UNCHANGED destroyed
       ELSE /\ r_pc' = "release"
            /\ destroyed' = Append(destroyed, r_v)
    /\ UNCHANGED <<requested, ring_capacity, wr_index, storage, strong_count, leaked,
                   wvars, r_mode, ncalls, pushed, drain_snap>>

\* The release store of rd_index, and Some(value).  In drop the value is
\* destroyed at once and the loop goes round.
RStoreIndex ==
    /\ r_pc = "store"
    /\ rd_index' = NextIndex(r_rd, ring_capacity)
    /\ r_ret' = Ret("Some", r_v, 0)
    /\ r_v' = Uninit /\ r_rd' = 0 /\ r_wr' = 0
    /\ r_steps' = r_steps + 1
    /\ r_call' = [RIdleCall EXCEPT !.avail = IF r_call.avail > 0 THEN r_call.avail - 1 ELSE 0]
    /\ hist' = IF r_call.clean
               THEN Window(Append(hist, [op |-> "R", arg |-> Uninit, ret |-> "Some",
                                         v |-> r_v, empty |-> r_call.empty]))
               ELSE <<>>
    /\ r_pc' = IF r_mode = "user" THEN "idle" ELSE "drain"
    /\ UNCHANGED <<requested, ring_capacity, wr_index, storage, strong_count, leaked,
                   wvars, r_mode, ncalls, pushed, drain_snap>>

\* The same step, with the returned element recorded, and recorded as
\* destroyed when drop made the call.
RStore ==
    /\ RStoreIndex
    /\ popped' = Append(popped, r_v)
    /\ destroyed' = IF r_mode = "user" THEN destroyed ELSE Append(destroyed, r_v)

\* BufferReader::size.
RSize ==
    /\ r_pc = "idle"
    /\ r_pc' = "size_rd"
    /\ r_ret' = NoRet
    /\ r_steps' = 0
    /\ r_call' = [empty |-> (rd_index = wr_index), clean |-> ~InTry(w_pc), occ |-> 0,
                  avail |-> 0]
    /\ UNCHANGED <<shared, wvars, r_v, r_rd, r_wr, r_mode, ghost>>

RSizeLoadRd ==
    /\ r_pc = "size_rd"
    /\ r_rd' = rd_index
    /\ r_pc' = "size_wr"
    /\ r_steps' = r_steps + 1
    /\ UNCHANGED <<shared, wvars, r_v, r_wr, r_ret, r_call, r_mode, ghost>>

RSizeLoadWr ==
    /\ r_pc = "size_wr"
    /\ r_wr' = wr_index
    /\ r_ret' = Ret("Size", Uninit, SizeOf(wr_index, r_rd, ring_capacity))
    /\ r_pc' = "size_ret"
    /\ r_steps' = r_steps + 1
    /\ UNCHANGED <<shared, r_v, r_rd, r_call, wvars, r_mode, ghost>>

\* The caller has taken the value size() returned.
RSizeReturn ==
    /\ r_pc = "size_ret"
    /\ r_ret' = NoRet
    /\ r_pc' = "idle"
    /\ r_rd' = 0 /\ r_wr' = 0
    /\ r_call' = [RIdleCall EXCEPT !.avail = r_ret.n]
    /\ UNCHANGED <<shared, r_v, r_steps, wvars, r_mode, ghost>>

\* BufferReader::capacity.
RCapacity ==
    /\ r_pc = "idle"
    /\ r_pc' = "cap_ret"
    /\ r_ret' = Ret("Cap", Uninit, ring_capacity)
    /\ r_steps' = 0
    /\ r_call' = RIdleCall
    /\ UNCHANGED <<shared, r_v, r_rd, r_wr, wvars, r_mode, ghost>>

\* The caller has taken the value capacity() returned.
RCapacityReturn ==
    /\ r_pc = "cap_ret"
    /\ r_pc' = "idle"
    /\ r_ret' = NoRet
    /\ UNCHANGED <<shared, r_v, r_rd, r_wr, r_steps, r_call, wvars, r_mode, ghost>>

\* Drop for BufferReader: the loop `while self.try_read().is_some() {}`.
DropReader ==
    /\ r_pc = "idle"
    /\ r_mode' = "drain"
    /\ r_pc' = "drain"
    /\ r_ret' = NoRet
    /\ r_steps' = 0
    /\ r_call' = RIdleCall
    /\ drain_snap' = Resident(rd_index, wr_index)
    /\ UNCHANGED <<shared, wvars, r_v, r_rd, r_wr, ncalls, pushed, popped, destroyed, hist>>

DrainCall ==
    /\ r_pc = "drain"
    /\ ReadCallStart

\* After drop has returned, the handle's field is dropped: its reference to
\* the shared state is released.
ReaderRelease ==
    /\ r_pc = "release"
    /\ r_pc' = "gone"
    /\ r_ret' = NoRet
    /\ r_steps' = 0
    /\ ReleaseArc
    /\ UNCHANGED <<requested, ring_capacity, wr_index, rd_index, wvars,
                   r_v, r_rd, r_wr, r_call, r_mode, ghost>>

\* ------------------------------------------------------------------ Next
WriterStep == WLoadRd \/ WLoadWr \/ WReturnErr \/ WSwap \/ WStore

ReaderStep == RLoadRd \/ RLoadWr \/ RReturnNone \/ RSwap \/ RStore

Next ==
    \/ TryWrite
    \/ WLoadRd
    \/ WLoadWr
    \/ WReturnErr
    \/ WSwap
    \/ WStore
    \/ WSize
    \/ WSizeLoadRd
    \/ WSizeLoadWr
    \/ WSizeReturn
    \/ WCapacity
    \/ WCapacityReturn
    \/ DropWriter
    \/ TryRead
    \/ RLoadRd
    \/ RLoadWr
    \/ RReturnNone
    \/ RSwap
    \/ RStore
    \/ RSize
    \/ RSizeLoadRd
    \/ RSizeLoadWr
    \/ RSizeReturn
    \/ RCapacity
    \/ RCapacityReturn
    \/ DropReader
    \/ DrainCall
    \/ ReaderRelease

Spec == Init /\ [][Next]_vars

\* ------------------------------------------- the program of examples/test01.rs
\* main sends NumMessages messages through a ring that holds fewer: the
\* producer thread submits message idx and submits the value of every Err
\* again until it is accepted; the consumer thread polls until it has
\* received NumMessages messages.  Each thread's handle is dropped when its
\* closure returns.
NumMessages == MaxCalls

\* The calls of try_write are counted up to one more than NumMessages: a
\* count above NumMessages tells that some value was submitted twice.
CountAttempt == IF ncalls <= NumMessages THEN ncalls + 1 ELSE ncalls

ProducerCall(value) ==
    /\ w_pc = "idle"
    /\ ncalls' = CountAttempt
    /\ w_pc' = "load_rd"
    /\ w_v' = value
    /\ w_ret' = NoRet
    /\ w_steps' = 0
    /\ w_call' = [arg |-> value,
                  empty |-> (rd_index = wr_index),
                  clean |-> ~InTry(r_pc),
                  occ |-> 0,
                  room |-> FALSE]
    /\ r_call' = [r_call EXCEPT !.clean = FALSE]
    /\ hist' = IF InTry(r_pc) THEN <<>> ELSE hist
    /\ UNCHANGED <<shared, w_rd, w_wr, r_pc, r_v, r_rd, r_wr, r_ret, r_steps, r_mode,
                   pushed, popped, destroyed, drain_snap>>

\* The body of the for loop: try_write(msg) for message idx.
ProducerSend ==
    /\ w_ret.kind # "Err"
    /\ Len(pushed) < NumMessages
    /\ ProducerCall(Len(pushed) + 1)

\* The body of `while result.is_err()`: try_write(result.err().unwrap()).
ProducerRetry ==
    /\ w_ret.kind = "Err"
    /\ ProducerCall(w_ret.v)

\* The for loop is over and the closure returns: buffer_writer is dropped.
ProducerExit ==
    /\ w_ret.kind # "Err"
    /\ Len(pushed) >= NumMessages
    /\ DropWriter

\* The body of `while num_received_messages < num_messages`: try_read().
ConsumerPoll ==
    /\ Len(popped) < NumMessages
    /\ TryRead

\* The while loop is over and the closure returns: buffer_reader is dropped.
ConsumerExit ==
    /\ Len(popped) >= NumMessages
    /\ DropReader

ProducerThread ==
    ProducerSend \/ ProducerRetry \/ WriterStep \/ ProducerExit

ConsumerThread ==
    ConsumerPoll \/ ReaderStep \/ ConsumerExit \/ DrainCall \/ ReaderRelease

MainNext ==
    \/ ProducerSend
    \/ ProducerRetry
    \/ WLoadRd
    \/ WLoadWr
    \/ WReturnErr
    \/ WSwap
    \/ WStore
    \/ ProducerExit
    \/ ConsumerPoll
    \/ RLoadRd
    \/ RLoadWr
    \/ RReturnNone
    \/ RSwap
    \/ RStore
    \/ ConsumerExit
    \/ DrainCall
    \/ ReaderRelease

\* Both threads are spawned and joined: the scheduler runs each of them
\* again and again, and a sleep of 10 ms returns.
MainSpec ==
    /\ Init
    /\ [][MainNext]_vars
    /\ WF_vars(ProducerThread)
    /\ WF_vars(ConsumerThread)

\* --------------------------------------------- a producer that never stops
\* The reader handle is dropped while the producer thread goes on calling
\* try_write for as long as it likes.  The elements are not recorded: the
\* producer may push any number of them.
WStoreUncounted ==
    /\ WStoreIndex
    /\ UNCHANGED pushed

RStoreUncounted ==
    /\ RStoreIndex
    /\ UNCHANGED <<popped, destroyed>>

\* One more try_write; the value tells which slot it is meant for.
KeepWriting == ProducerCall(wr_index + 1)

DrainProducerThread ==
    KeepWriting \/ WLoadRd \/ WLoadWr \/ WReturnErr \/ WSwap \/ WStoreUncounted

\* The steps of drop, once the owner has let go of the reader handle.
DropReaderThread ==
    DrainCall \/ RLoadRd \/ RLoadWr \/ RReturnNone \/ RSwap \/ RStoreUncounted \/ ReaderRelease

DrainNext ==
    \/ KeepWriting
    \/ WLoadRd
    \/ WLoadWr
    \/ WReturnErr
    \/ WSwap
    \/ WStoreUncounted
    \/ DropWriter
    \/ TryRead
    \/ RLoadRd
    \/ RLoadWr
    \/ RReturnNone
    \/ RSwap
    \/ RStoreUncounted
    \/ DropReader
    \/ DrainCall
    \/ ReaderRelease

\* Each thread is scheduled again and again: a call that has begun is
\* finished, the producer's loop goes round, and drop runs to its end if it
\* has one.
DrainSpec ==
    /\ Init
    /\ [][DrainNext]_vars
    /\ WF_vars(DrainProducerThread)
    /\ WF_vars(DropReaderThread)

\* ================================================================ claims
IsPrefix(s, t) ==
    /\ Len(s) <= Len(t)
    /\ \A i \in 1..Len(s) : s[i] = t[i]

Occupancy == Len(pushed) - Len(popped)

\* C1: under every interleaving of the producer's and the consumer's steps,
\* the values returned by successful try_read calls are a prefix of the
\* values accepted by successful try_write calls: same order, none twice,
\* none skipped.
C1_Fifo == IsPrefix(popped, pushed)

\* A pop has completed while a push was in progress, after an earlier pop.
C1_Witness ==
    /\ r_pc = "idle"
    /\ r_ret.kind = "Some"
    /\ InTry(w_pc)
    /\ Len(popped) >= 2
    /\ ring_capacity = 3

\* C2: starting from an empty ring of capacity c, with no try_read in
\* between, the first c-1 try_write calls return Ok and the c-th returns Err
\* carrying the value that was passed in.
C2_UsableCapacity ==
    \A i \in 1..Len(hist) : \A j \in i..Len(hist) :
        ( /\ hist[i].empty
          /\ \A k \in i..j : hist[k].op = "W" )
        => LET n == j - i + 1 IN
           /\ n <= ring_capacity - 1 => hist[j].ret = "Ok"
           /\ n = ring_capacity => (hist[j].ret = "Err" /\ hist[j].v = hist[j].arg)

\* A ring of capacity 3 took two pushes and rejected the third.
C2_Witness ==
    /\ ring_capacity = 3
    /\ Len(hist) = 3
    /\ hist[1].empty
    /\ \A k \in 1..3 : hist[k].op = "W"
    /\ hist[3].ret = "Err"

\* C3: the capacity() of both handles is 2 when less than 2 was requested
\* and the requested capacity otherwise, whatever try_write and try_read
\* calls have been made.
C3_Capacity ==
    LET expected == IF requested < 2 THEN 2 ELSE requested IN
    /\ w_pc = "cap_ret" => (w_ret.kind = "Cap" /\ w_ret.n = expected)
    /\ r_pc = "cap_ret" => (r_ret.kind = "Cap" /\ r_ret.n = expected)

\* Both handles return the capacity of a ring requested with capacity 0,
\* after pushes and a pop.
C3_Witness ==
    /\ w_pc = "cap_ret"
    /\ r_pc = "cap_ret"
    /\ requested = 0
    /\ Len(popped) >= 1

\* The same for a requested capacity that is not clamped.
C3_WitnessLarge ==
    /\ w_pc = "cap_ret"
    /\ r_pc = "cap_ret"
    /\ requested = 3
    /\ Len(popped) >= 1

\* A step of a try_write call other than its slot write and its index store:
\* the steps a rejected push is made of.
WriterRejectStep ==
    /\ w_pc \in {"load_rd", "load_wr", "check"}
    /\ w_pc' \notin {w_pc, "store"}

\* A step of a try_read call other than its slot read and its index store:
\* the steps a try_read that returns None is made of.
ReaderNoneStep ==
    /\ r_pc \in {"load_rd", "load_wr", "check"}
    /\ r_pc' \notin {r_pc, "store"}

RingUnchanged ==
    /\ wr_index' = wr_index
    /\ rd_index' = rd_index
    /\ storage' = storage

\* The try_read made right after a rejected try_write returns the oldest
\* element pushed before it.
ReadAfterReject ==
    LET n == Len(hist) IN
    ( /\ n >= 2
      /\ hist[n - 1].op = "W" /\ hist[n - 1].ret = "Err"
      /\ hist[n].op = "R" )
    => ( /\ hist[n].ret = "Some"
         /\ Len(popped) >= 1
         /\ Len(popped) <= Len(pushed)
         /\ hist[n].v = pushed[Len(popped)] )

\* C4: a rejected push changes nothing: try_write on a full ring returns
\* Err(v) with v the value passed in, no step of the call changes wr_index,
\* rd_index or a slot, and a later try_read still returns the oldest element
\* pushed before.
C4_RejectedPushChangesNothing ==
    [][ /\ WriterRejectStep => RingUnchanged
        /\ (w_pc = "check" /\ w_pc' = "idle") => w_ret' = Ret("Err", w_call.arg, 0)
        /\ ReadAfterReject' ]_vars

\* A push was rejected and the next call, a try_read, has returned.
C4_Witness ==
    /\ ring_capacity = 3
    /\ Len(hist) = 3
    /\ hist[1].op = "W" /\ hist[1].ret = "Ok"
    /\ hist[2].op = "W" /\ hist[2].ret = "Err"
    /\ hist[3].op = "R" /\ hist[3].ret = "Some"
    /\ w_ret.kind = "Err"

\* Reads of an empty ring return None, and a push and a pop made after one
\* still hand the pushed value over.
EmptyReads ==
    /\ \A i \in 1..Len(hist) :
          (hist[i].op = "R" /\ hist[i].empty) => hist[i].ret = "None"
    /\ (Len(hist) >= 1 /\ hist[Len(hist)].op = "R" /\ hist[Len(hist)].empty)
          => rd_index = wr_index
    /\ \A i \in 1..(Len(hist) - 2) :
          ( /\ hist[i].op = "R" /\ hist[i].empty
            /\ hist[i + 1].op = "W"
            /\ hist[i + 2].op = "R" )
          => ( /\ hist[i + 1].ret = "Ok"
               /\ hist[i + 2].ret = "Some"
               /\ hist[i + 2].v = hist[i + 1].arg )

\* C5: try_read on an empty ring returns None and changes neither index nor
\* any slot; consecutive try_read calls on an empty ring all return None, and
\* a try_write followed by a try_read then still returns the pushed value.
C5_IdempotentEmptiness ==
    [][ /\ ReaderNoneStep => RingUnchanged
        /\ EmptyReads' ]_vars

\* Two reads of an empty ring, one after the other, then a push.
C5_Witness ==
    /\ Len(hist) = 3
    /\ hist[1].op = "R" /\ hist[1].empty /\ hist[1].ret = "None"
    /\ hist[2].op = "R" /\ hist[2].empty /\ hist[2].ret = "None"
    /\ hist[3].op = "W"
    /\ Len(popped) >= 1

\* A read of an empty ring, then a push and the pop that returns its value.
C5_WitnessRoundTrip ==
    /\ Len(hist) = 3
    /\ hist[1].op = "R" /\ hist[1].empty /\ hist[1].ret = "None"
    /\ hist[2].op = "W"
    /\ hist[3].op = "R" /\ hist[3].ret = "Some"
    /\ Len(popped) >= 2

\* C6: try_write(x) on an empty ring followed at once by try_read returns
\* Some(x), at every position of the indices, and leaves the ring empty.
C6_RoundTrip ==
    \A i \in 1..(Len(hist) - 1) :
        ( /\ hist[i].op = "W" /\ hist[i].empty
          /\ hist[i + 1].op = "R" )
        => ( /\ hist[i].ret = "Ok"
             /\ hist[i + 1].ret = "Some"
             /\ hist[i + 1].v = hist[i].arg
             /\ (i + 1 = Len(hist)) => rd_index = wr_index )

\* A round trip through the last slot of a ring of capacity 3: both indices
\* have wrapped to 0.
C6_Witness ==
    /\ ring_capacity = 3
    /\ Len(hist) >= 2
    /\ hist[Len(hist) - 1].op = "W" /\ hist[Len(hist) - 1].empty
    /\ hist[Len(hist)].op = "R" /\ hist[Len(hist)].ret = "Some"
    /\ Len(pushed) = 3
    /\ wr_index = 0
    /\ rd_index = 0

\* The reader's drop has just ended: the loop over try_read is left.
DropCompletes == r_pc # "release" /\ r_pc' = "release"

\* Every element that was resident when the drop began has been destroyed
\* once, and nothing has been destroyed twice.
DrainedOnce ==
    /\ \A i \in 1..Len(drain_snap) : Count(destroyed, drain_snap[i]) = 1
    /\ \A i \in 1..Len(destroyed) : Count(destroyed, destroyed[i]) = 1

\* The producer has completed no push since the reader's drop began.
NoPushSinceDrop ==
    Len(pushed) = Len(popped) - Len(destroyed) + Len(drain_snap)

\* C7 as stated: when the reader's drop completes, each of the n elements
\* that were resident when it began has been destroyed exactly once and the
\* ring is empty (rd_index = wr_index).
C7_DrainLeavesRingEmpty ==
    [][ DropCompletes => (DrainedOnce' /\ rd_index' = wr_index') ]_vars

\* C7 as amended: when the reader's drop completes, each of the n elements
\* that were resident when it began has been destroyed exactly once, and the
\* ring is empty if the producer completed no push while the drop ran.
C7_DrainDestroysResident ==
    [][ DropCompletes =>
          /\ DrainedOnce'
          /\ NoPushSinceDrop' => rd_index' = wr_index' ]_vars

\* The drop of a reader has drained a ring of capacity 3 that was full.
C7_Witness ==
    /\ r_pc = "release"
    /\ ring_capacity = 3
    /\ Len(drain_snap) = 2
    /\ Len(destroyed) = 2
    /\ rd_index = wr_index

\* C8: when the shared state is torn down, every pushed element has been
\* returned by a try_read (the owner's, or the drop's, which destroys it)
\* exactly once, and no live element remains in the storage.
C8_NoLeakAtTeardown ==
    strong_count = 0 =>
        /\ leaked = {}
        /\ \A i \in 1..Len(pushed) : Count(popped, pushed[i]) = 1

\* C9: every try_write and try_read call returns within four steps of its
\* own thread (two index loads, at most one slot access, at most one index
\* store), and in every state a call in progress can take its next step
\* whatever the other thread is doing.
C9_NonBlocking ==
    /\ w_steps <= 4
    /\ r_steps <= 4
    /\ InTry(w_pc) => ENABLED WriterStep
    /\ InTry(r_pc) => ENABLED ReaderStep
    /\ (w_pc = "idle" /\ w_ret.kind = "Err") => w_steps = 3
    /\ (w_pc = "idle" /\ w_ret.kind = "Ok") => w_steps = 4
    /\ (r_pc = "idle" /\ r_ret.kind = "None") => r_steps = 3
    /\ (r_pc = "idle" /\ r_ret.kind = "Some") => r_steps = 4

\* A try_write has returned Err while the consumer stands in the middle of a
\* try_read, between its slot read and its index store.
C9_Witness ==
    /\ w_pc = "idle"
    /\ w_ret.kind = "Err"
    /\ w_steps = 3
    /\ r_pc = "store"

\* C10: a size() call during which no try_write or try_read is in progress
\* returns, on either handle, the number of successful pushes minus the
\* number of successful pops, which is (wr_index + capacity - rd_index) mod
\* capacity; so the two handles return the same value.
C10_SizeQuiescent ==
    /\ (w_pc = "size_ret" /\ w_call.clean) =>
          /\ w_ret.kind = "Size"
          /\ w_ret.n = Occupancy
          /\ w_ret.n = (wr_index + ring_capacity - rd_index) % ring_capacity
    /\ (r_pc = "size_ret" /\ r_call.clean) =>
          /\ r_ret.kind = "Size"
          /\ r_ret.n = Occupancy
          /\ r_ret.n = (wr_index + ring_capacity - rd_index) % ring_capacity
    /\ (w_pc = "size_ret" /\ w_call.clean /\ r_pc = "size_ret" /\ r_call.clean) =>
          w_ret.n = r_ret.n

\* Both handles return a size of 1 from a ring whose wr_index has wrapped
\* and whose rd_index has not.
C10_Witness ==
    /\ w_pc = "size_ret" /\ w_call.clean
    /\ r_pc = "size_ret" /\ r_call.clean
    /\ wr_index < rd_index
    /\ w_ret.n = 1
    /\ r_ret.n = 1

\* C12: in every reachable state the number of resident elements (pushes
\* whose wr_index store has happened minus pops whose rd_index store has
\* happened) equals (wr_index + capacity - rd_index) mod capacity and is at
\* most capacity - 1; wr_index = rd_index exactly when the ring holds no
\* element, and never when it holds capacity - 1 elements.
C12_ReservedSlot ==
    /\ Occupancy = (wr_index + ring_capacity - rd_index) % ring_capacity
    /\ Occupancy >= 0
    /\ Occupancy <= ring_capacity - 1
    /\ (wr_index = rd_index) <=> (Occupancy = 0)
    /\ (Occupancy = ring_capacity - 1) => (wr_index # rd_index)

\* A ring of capacity 3 holds its 2 elements across the wrap of wr_index
\* while both threads are inside a call.
C12_Witness ==
    /\ ring_capacity = 3
    /\ Occupancy = ring_capacity - 1
    /\ wr_index < rd_index
    /\ InTry(w_pc)
    /\ InTry(r_pc)

\* The producer has decided to write, or has written and not yet published,
\* slot i.
WriterHolds(i) ==
    /\ \/ w_pc = "check" /\ ~IsFull(w_wr, w_rd, ring_capacity)
       \/ w_pc = "store"
    /\ w_wr = i

\* The consumer has decided to move out, or has moved out and not yet
\* released, slot i.
ReaderHolds(i) ==
    /\ \/ r_pc = "check" /\ ~IsEmpty(r_wr, r_rd)
       \/ r_pc = "store"
    /\ r_rd = i

\* C13: the producer is never between its slot write and its wr_index store
\* for a slot while the consumer is between its slot read and its rd_index
\* store for the same slot; the slot the producer writes never holds an
\* element, even when the rd_index it loaded is stale.
C13_SlotExclusive ==
    /\ \A i \in 0..(ring_capacity - 1) : ~(WriterHolds(i) /\ ReaderHolds(i))
    /\ (w_pc = "check" /\ ~IsFull(w_wr, w_rd, ring_capacity)) =>
          storage[w_wr] = Uninit
    /\ (w_pc = "store") => w_v = Uninit

\* Both threads are between their slot access and their index store, on
\* different slots: the producer has written the slot behind the one the
\* consumer has just moved out and not yet released.
C13_Witness ==
    /\ w_pc = "store"
    /\ r_pc = "store"
    /\ w_wr # r_rd
    /\ w_wr < r_rd
    /\ w_rd = r_rd
    /\ storage[r_rd] = Uninit

\* The k-th resident element, counted from the oldest, and the slot it is in.
ResidentElement(k) == pushed[Len(popped) + k]

ResidentSlot(k) == (rd_index + k - 1) % ring_capacity

\* C14: in try_write the slot is written before wr_index is advanced, and
\* in try_read the slot is moved out before rd_index is advanced; whenever
\* the consumer has observed wr_index # rd_index, the slot at rd_index holds
\* the whole value of the oldest pushed and not yet popped element; try_read
\* never returns a slot that was never written or was already moved out.
C14_PublishAfterWrite ==
    /\ (w_pc = "store") =>
          /\ storage[w_wr] = w_call.arg
          /\ wr_index = w_wr
    /\ (r_pc = "store") =>
          /\ storage[r_rd] = Uninit
          /\ rd_index = r_rd
          /\ Occupancy >= 1
          /\ r_v = ResidentElement(1)
    /\ (r_pc = "check" /\ ~IsEmpty(r_wr, r_rd)) =>
          /\ Occupancy >= 1
          /\ storage[r_rd] = ResidentElement(1)
          /\ storage[r_rd] # Uninit
    /\ (strong_count > 0) =>
          \A k \in 1..Occupancy :
             (k = 1 /\ r_pc = "store") \/ storage[ResidentSlot(k)] = ResidentElement(k)
    /\ \A i \in 1..Len(popped) : popped[i] # Uninit
    /\ (r_ret.kind = "Some") => r_ret.v # Uninit

\* The consumer has observed a non-empty ring while the producer has
\* written the next slot and not yet advanced wr_index: the consumer's
\* wr_index does not cover that slot.
C14_Witness ==
    /\ r_pc = "check"
    /\ ~IsEmpty(r_wr, r_rd)
    /\ w_pc = "store"
    /\ r_wr = w_wr
    /\ storage[w_wr] = w_call.arg
    /\ storage[r_rd] = ResidentElement(1)

SizeOrCapacityPc == {"size_rd", "size_wr", "size_ret", "cap_ret"}

\* A step of a size() or capacity() call of the producer, of the consumer.
WriterObserverStep ==
    /\ w_pc' # w_pc
    /\ w_pc \in SizeOrCapacityPc \/ w_pc' \in SizeOrCapacityPc

ReaderObserverStep ==
    /\ r_pc' # r_pc
    /\ r_pc \in SizeOrCapacityPc \/ r_pc' \in SizeOrCapacityPc

\* C15: wr_index is changed only by a successful try_write, which sets it
\* to (wr_index + 1) mod capacity and leaves rd_index alone; rd_index is
\* changed only by a successful try_read, the pops of the reader's drop
\* included, which sets it to (rd_index + 1) mod capacity and leaves
\* wr_index alone; size() and capacity() change no index and no slot.
C15_SingleMutator ==
    [][ /\ (wr_index' # wr_index) =>
              /\ w_pc = "store" /\ w_pc' = "idle" /\ w_ret'.kind = "Ok"
              /\ rd_index' = rd_index
        /\ (w_pc = "store" /\ w_pc' # w_pc) =>
              wr_index' = (wr_index + 1) % ring_capacity
        /\ (rd_index' # rd_index) =>
              /\ r_pc = "store" /\ r_pc' \in {"idle", "drain"} /\ r_ret'.kind = "Some"
              /\ wr_index' = wr_index
        /\ (r_pc = "store" /\ r_pc' # r_pc) =>
              rd_index' = (rd_index + 1) % ring_capacity
        /\ (WriterObserverStep \/ ReaderObserverStep) =>
              /\ wr_index' = wr_index
              /\ rd_index' = rd_index
              /\ storage' = storage
      ]_vars

\* A pop made by the reader's drop has wrapped rd_index to 0 while the
\* producer holds the result of a size() call.
C15_Witness ==
    /\ r_mode = "drain"
    /\ r_pc = "drain"
    /\ r_ret.kind = "Some"
    /\ rd_index = 0
    /\ Len(destroyed) >= 1
    /\ w_pc = "size_ret"

Slots == 0..(ring_capacity - 1)

\* C16: in every reachable state 0 <= wr_index < capacity and
\* 0 <= rd_index < capacity; every slot access addresses one of the
\* capacity allocated slots; the expression wr_index + capacity - rd_index
\* of try_write and size() is never below zero.
C16_IndexRange ==
    /\ wr_index \in Slots
    /\ rd_index \in Slots
    /\ DOMAIN storage = Slots
    /\ (w_pc \in {"check", "store"}) => (w_wr \in Slots /\ w_wr \in DOMAIN storage)
    /\ (r_pc \in {"check", "store"}) => (r_rd \in Slots /\ r_rd \in DOMAIN storage)
    /\ wr_index + ring_capacity - rd_index >= 0
    /\ (w_pc = "check") => (w_rd \in Slots /\ w_wr + ring_capacity - w_rd >= 0)
    /\ (w_pc = "size_wr") => (w_rd \in Slots /\ wr_index + ring_capacity - w_rd >= 0)
    /\ (r_pc = "size_wr") => (r_rd \in Slots /\ wr_index + ring_capacity - r_rd >= 0)

\* The producer's full test and the consumer's size() both compute the
\* expression from a write index that has wrapped below the read index,
\* and the producer's next slot is the last allocated one.
C16_Witness ==
    /\ w_pc = "check"
    /\ w_wr < w_rd
    /\ r_pc = "size_wr"
    /\ wr_index < r_rd
    /\ r_rd = ring_capacity - 1
    /\ ring_capacity = ActualCapacity(MaxReq)

\* C18: try_write returns Err only if the ring held capacity - 1 elements at
\* the instant that call loaded rd_index, and try_read returns None only if
\* the ring held no element at the instant that call loaded wr_index; the
\* count at those instants is the one the ghost sequences gave, recorded by
\* the load.
C18_NoSpuriousFailure ==
    [][ /\ (w_pc = "check" /\ w_pc' = "idle" /\ w_ret'.kind = "Err") =>
              w_call.occ = ring_capacity - 1
        /\ (r_pc = "check" /\ r_pc' # "check" /\ r_ret'.kind = "None") =>
              r_call.occ = 0
      ]_vars

\* try_write has returned Err from a ring that was full when the call loaded
\* rd_index and that the consumer has emptied since; the consumer's next
\* try_read has loaded wr_index from the empty ring and is about to return
\* None.
C18_Witness ==
    /\ w_pc = "idle"
    /\ w_ret.kind = "Err"
    /\ Occupancy < ring_capacity - 1
    /\ r_pc = "check"
    /\ IsEmpty(r_wr, r_rd)
    /\ r_call.occ = 0
    /\ Len(popped) >= 1

\* C19: the value of a size() call of the producer is never less than the
\* occupancy when the call returns, the value of a size() call of the
\* consumer never greater; so the try_write that follows a size() below
\* capacity - 1 on the producer is not rejected, and each of the k try_read
\* calls that follow a size() of k > 0 on the consumer returns an element.
C19_SizeStaleness ==
    /\ [](/\ (w_pc = "size_ret") => (w_ret.n >= Occupancy)
          /\ (r_pc = "size_ret") => (r_ret.n <= Occupancy)
          /\ (w_pc = "idle" /\ w_call.room) => (Occupancy < ring_capacity - 1)
          /\ (r_pc = "idle") => (r_call.avail <= Occupancy))
    /\ [][ /\ (w_pc = "check" /\ w_call.room) => (w_ret'.kind # "Err")
           /\ (r_pc = "check" /\ r_call.avail > 0) => (r_ret'.kind # "None")
         ]_vars

\* The consumer holds a size() of 0 from a ring into which the producer has
\* since pushed an element; the producer, whose own size() was below
\* capacity - 1, has written the slot of its next push.
C19_Witness ==
    /\ r_pc = "size_ret"
    /\ r_ret.n < Occupancy
    /\ w_pc = "store"
    /\ w_call.room

\* C11: when the producer submits the value of every failed try_write again
\* until it is accepted and the consumer keeps calling try_read, then under
\* weak fairness of both threads every value the producer submits is
\* eventually returned by a try_read; a producer sending NumMessages
\* messages through a ring that holds fewer, and a consumer waiting for
\* NumMessages messages, both terminate.
C11_DeferredNeverLost ==
    /\ \A value \in 1..NumMessages :
          (InTry(w_pc) /\ w_call.arg = value) ~> (\E i \in 1..Len(popped) : popped[i] = value)
    /\ <>(w_pc = "gone" /\ r_pc = "gone")
    /\ <>[](popped = [i \in 1..NumMessages |-> i])

\* Both threads have returned, every message was received in order, and at
\* least one message was rejected and submitted again.
C11_Witness ==
    /\ w_pc = "gone"
    /\ r_pc = "gone"
    /\ popped = [i \in 1..NumMessages |-> i]
    /\ ncalls > NumMessages
    /\ ring_capacity - 1 < NumMessages

InDrop == r_mode = "drain" /\ r_pc \notin {"release", "gone"}

DropReturned == r_pc \in {"release", "gone"}

\* C17 as stated: destroying the reader handle terminates, its loop reaches
\* an empty ring and returns after finitely many pops, whatever the
\* producer thread does, a producer that keeps calling try_write included.
C17_DrainTerminates == InDrop ~> DropReturned

\* C17 as amended: destroying the reader handle terminates when the
\* producer thread eventually makes no further try_write call; its loop then
\* reaches an empty ring and returns after finitely many pops.
C17_DrainTerminatesOnceProducerStops ==
    (<>[](~InTry(w_pc))) => (InDrop ~> DropReturned)

\* drop has returned after popping elements that the producer, whose
\* handle is gone by now, pushed.
C17_Witness ==
    /\ r_mode = "drain"
    /\ r_pc = "release"
    /\ r_ret.kind = "None"
    /\ rd_index # 0
    /\ rd_index = wr_index
    /\ w_pc = "gone"
====
